---- MODULE Spec2Model ----
(***************************************************************************)
(* Model of the survival-record cell of Lab7.ipynb (Section 3): the cell   *)
(* copies the clinical table, parses the two date columns with the format  *)
(* %m/%d/%Y, computes the time column, computes the event column and       *)
(* converts both to a structured survival array.  A statement that raises  *)
(* ends the cell: no later statement runs.                                 *)
(***************************************************************************)
EXTENDS Integers, Sequences, FiniteSets, TLC

VARIABLES clinical, clinical_data, clinical_data_is_clinical, survival_data,
          pc, raised

vars == <<clinical, clinical_data, clinical_data_is_clinical, survival_data,
          pc, raised>>

(* Largest number of rows of the clinical table. *)
MaxRows == 2

------------------------------------------------------------------------------
(* Column names used by the cell. *)
LastAliveCol == "Date of Last Known Alive"
CTCol == "CT Date"
OffsetCol == "Days between CT and surgery"
StatusCol == "Survival Status"
TimeCol == "time"
EventCol == "event"

RequiredCols == {LastAliveCol, CTCol, OffsetCol, StatusCol}

(* Cell values of a data frame. *)
NaN == [tag |-> "nan"]
NaT == [tag |-> "nat"]
Str(s) == [tag |-> "str", s |-> s]
Int64(n) == [tag |-> "int", n |-> n]
Float64(n) == [tag |-> "float", n |-> n]
Bool(b) == [tag |-> "bool", b |-> b]
Timestamp(y, m, d) == [tag |-> "ts", y |-> y, m |-> m, d |-> d]

(* A name that is not bound yet (clinical_data before the copy,            *)
(* survival_data before the conversion).                                   *)
Undefined == [tag |-> "undefined"]
NoError == [type |-> "none", at |-> "none"]

------------------------------------------------------------------------------
(* Calendar arithmetic of Timestamp subtraction and Timedelta.days.        *)

(* Variant of IsLeap: February always has 28 days. *)
IsLeapNever(y) == FALSE

IsLeap(y) == (y % 4 = 0) /\ ((y % 100 # 0) \/ (y % 400 = 0))

DaysInMonth(y, m) ==
    IF m = 2 THEN (IF IsLeap(y) THEN 29 ELSE 28)
    ELSE IF m \in {4, 6, 9, 11} THEN 30 ELSE 31

RECURSIVE DaysBeforeMonth(_, _)
DaysBeforeMonth(y, m) ==
    IF m = 1 THEN 0 ELSE DaysBeforeMonth(y, m - 1) + DaysInMonth(y, m - 1)

DaysBeforeYear(y) ==
    365 * (y - 1) + ((y - 1) \div 4) - ((y - 1) \div 100) + ((y - 1) \div 400)

Ordinal(ts) == DaysBeforeYear(ts.y) + DaysBeforeMonth(ts.y, ts.m) + ts.d

(* (a - b).days for two timestamps. *)
DaysBetween(a, b) == Ordinal(a) - Ordinal(b)

------------------------------------------------------------------------------
(* pd.to_datetime(..., format="%m/%d/%Y") on one cell.  Strings are        *)
(* sequences of characters.  The directives match as in strptime:          *)
(*   %m  1[0-2] | 0[1-9] | [1-9]                                            *)
(*   %d  3[01] | [12][0-9] | 0[1-9] | [1-9] | " "[1-9]                      *)
(*   %Y  four digits                                                        *)
(* and the whole string has to match.                                      *)
Digits == {"0", "1", "2", "3", "4", "5", "6", "7", "8", "9"}
NonZeroDigits == Digits \ {"0"}

DigitVal(c) ==
    CASE c = "0" -> 0 [] c = "1" -> 1 [] c = "2" -> 2 [] c = "3" -> 3
      [] c = "4" -> 4 [] c = "5" -> 5 [] c = "6" -> 6 [] c = "7" -> 7
      [] c = "8" -> 8 [] c = "9" -> 9 [] OTHER -> 0

RECURSIVE NumVal(_)
NumVal(t) ==
    IF Len(t) = 0 THEN 0
    ELSE 10 * NumVal(SubSeq(t, 1, Len(t) - 1)) + DigitVal(t[Len(t)])

IsMonthTok(t) ==
    \/ Len(t) = 2 /\ t[1] = "1" /\ t[2] \in {"0", "1", "2"}
    \/ Len(t) = 2 /\ t[1] = "0" /\ t[2] \in NonZeroDigits
    \/ Len(t) = 1 /\ t[1] \in NonZeroDigits

IsDayTok(t) ==
    \/ Len(t) = 2 /\ t[1] = "3" /\ t[2] \in {"0", "1"}
    \/ Len(t) = 2 /\ t[1] \in {"1", "2"} /\ t[2] \in Digits
    \/ Len(t) = 2 /\ t[1] \in {"0", " "} /\ t[2] \in NonZeroDigits
    \/ Len(t) = 1 /\ t[1] \in NonZeroDigits

IsYearTok(t) == Len(t) = 4 /\ \A i \in 1..4 : t[i] \in Digits

Slashes(s) == {i \in 1..Len(s) : s[i] = "/"}

(* The string matches the format and names a day the month has. *)
MatchesFormat(s) ==
    /\ Cardinality(Slashes(s)) = 2
    /\ LET i == CHOOSE k \in Slashes(s) : \A l \in Slashes(s) : k <= l
           j == CHOOSE k \in Slashes(s) : \A l \in Slashes(s) : k >= l
           mt == SubSeq(s, 1, i - 1)
           dt == SubSeq(s, i + 1, j - 1)
           yt == SubSeq(s, j + 1, Len(s))
       IN  /\ IsMonthTok(mt) /\ IsDayTok(dt) /\ IsYearTok(yt)
           /\ NumVal(IF dt[1] = " " THEN Tail(dt) ELSE dt)
                 <= DaysInMonth(NumVal(yt), NumVal(mt))

Strptime(s) ==
    LET i == CHOOSE k \in Slashes(s) : \A l \in Slashes(s) : k <= l
        j == CHOOSE k \in Slashes(s) : \A l \in Slashes(s) : k >= l
        dt == SubSeq(s, i + 1, j - 1)
    IN  Timestamp(NumVal(SubSeq(s, j + 1, Len(s))),
                  NumVal(SubSeq(s, 1, i - 1)),
                  NumVal(IF dt[1] = " " THEN Tail(dt) ELSE dt))

(* A missing value and the empty string give NaT; any other string that    *)
(* does not match raises ValueError.                                       *)
ParseRaises(c) == c.tag = "str" /\ Len(c.s) > 0 /\ ~MatchesFormat(c.s)

to_datetime(c) ==
    IF c.tag = "nan" \/ (c.tag = "str" /\ Len(c.s) = 0) THEN NaT
    ELSE Strptime(c.s)

------------------------------------------------------------------------------
(* The per-row computations of the cell. *)

(* Variants of compute_time: the offset added, the result clamped at zero, *)
(* the dates subtracted the other way round.                               *)
compute_time_offset_added(la, ct, off) ==
    IF la.tag = "nat" \/ ct.tag = "nat" \/ off.tag = "nan" THEN NaN
    ELSE Int64(DaysBetween(la, ct) + off.n)

compute_time_clamped(la, ct, off) ==
    IF la.tag = "nat" \/ ct.tag = "nat" \/ off.tag = "nan" THEN NaN
    ELSE IF DaysBetween(la, ct) - off.n < 0 THEN Int64(0)
    ELSE Int64(DaysBetween(la, ct) - off.n)

compute_time_reversed(la, ct, off) ==
    IF la.tag = "nat" \/ ct.tag = "nat" \/ off.tag = "nan" THEN NaN
    ELSE Int64(DaysBetween(ct, la) - off.n)

(* (last_alive - ct).dt.days - offset: NaT or a missing offset gives NaN. *)
compute_time(la, ct, off) ==
    IF la.tag = "nat" \/ ct.tag = "nat" \/ off.tag = "nan" THEN NaN
    ELSE Int64(DaysBetween(la, ct) - off.n)

(* Variant of classify_event: everything but "Alive" is an event. *)
classify_event_not_alive(x) == Bool(x # Str("Alive"))

(* lambda x: True if x == "Death" else False *)
classify_event(x) == Bool(x = Str("Death"))

------------------------------------------------------------------------------
(* Data frames: an index (row labels), a set of columns, and one function  *)
(* from column to cell per row.                                            *)
SetCol(df, col, vals) ==
    [index |-> df.index,
     columns |-> df.columns \cup {col},
     rows |-> [i \in 1..Len(df.rows) |->
                 [c \in df.columns \cup {col} |->
                     IF c = col THEN vals[i] ELSE df.rows[i][c]]]]

(* Variant of copy: the plain assignment clinical_data = clinical, which   *)
(* binds the second name to the same object.                               *)
no_copy(df) == [frame |-> df, is_self |-> TRUE]

(* df.copy(): a new object with its own data (deep by default). *)
copy(df) == [frame |-> df, is_self |-> FALSE]

(* Surv.from_dataframe("event", "time", data): a structured array of       *)
(* (event: bool, time: float), one entry per row, in row order.  The event *)
(* column of a table with rows is boolean and is accepted.  For a table    *)
(* with no rows the dtype of the event column is that of the status        *)
(* column, which the cell does not fix: a boolean column is accepted, any  *)
(* other is rejected as a non-binary event indicator.                      *)
SurvMayRaise(df) == Len(df.rows) = 0

AsFloat(c) == IF c.tag = "int" THEN Float64(c.n) ELSE NaN

(* Variant of from_dataframe: rows with a missing time are dropped. *)
from_dataframe_dropna(df) ==
    SelectSeq([i \in 1..Len(df.rows) |->
                  [event |-> df.rows[i][EventCol].b,
                   time |-> AsFloat(df.rows[i][TimeCol])]],
              LAMBDA e : e.time # NaN)

from_dataframe(df) ==
    [i \in 1..Len(df.rows) |->
        [event |-> df.rows[i][EventCol].b, time |-> AsFloat(df.rows[i][TimeCol])]]

------------------------------------------------------------------------------
(* Inputs. *)

GoodLastAlive == <<"0", "6", "/", "1", "5", "/", "2", "0", "2", "0">>
EarlyLastAlive == <<"1", "2", "/", "2", "5", "/", "2", "0", "1", "9">>
IsoLastAlive == <<"2", "0", "2", "0", "-", "0", "6", "-", "1", "5">>
GoodCT == <<"0", "1", "/", "0", "1", "/", "2", "0", "2", "0">>
ShortCT == <<"3", "/", "1", "/", "2", "0", "1", "9">>
DayFirstCT == <<"1", "5", "/", "0", "1", "/", "2", "0", "2", "0">>

LastAliveCells ==
    {Str(GoodLastAlive), Str(EarlyLastAlive), Str(IsoLastAlive), Str(<<>>), NaN}
CTCells == {Str(GoodCT), Str(ShortCT), Str(DayFirstCT), NaN}
OffsetCells == {Int64(10), Int64(200), NaN}
StatusCells ==
    {Str("Death"), Str("Alive"), Str(""), Str("DECEASED"), Str("death"), NaN}

MkRow(la, ct, off, st) ==
    [c \in RequiredCols |->
        IF c = LastAliveCol THEN la
        ELSE IF c = CTCol THEN ct
        ELSE IF c = OffsetCol THEN off ELSE st]

(* Records that vary the dates and the offset, and records that vary the   *)
(* status label.                                                           *)
Records ==
    {MkRow(la, ct, off, Str("Death")) :
        la \in LastAliveCells, ct \in CTCells, off \in OffsetCells}
    \cup {MkRow(Str(GoodLastAlive), Str(GoodCT), Int64(10), st) : st \in StatusCells}

Restrict(r, cols) == [c \in cols |-> r[c]]

(* pd.read_csv gives a RangeIndex 0..N-1. *)
Frame(rows, cols) ==
    [index |-> [i \in 1..Len(rows) |-> i - 1],
     columns |-> cols,
     rows |-> [i \in 1..Len(rows) |-> Restrict(rows[i], cols)]]

Tables == UNION {[1..n -> Records] : n \in 0..MaxRows}

------------------------------------------------------------------------------
Init ==
    /\ \E rows \in Tables, cols \in SUBSET RequiredCols :
          clinical = Frame(rows, cols)
    /\ clinical_data = Undefined
    /\ clinical_data_is_clinical = FALSE
    /\ survival_data = Undefined
    /\ pc = "copy"
    /\ raised = NoError

(* Variant of Raise: the exception is recorded and swallowed, and the cell *)
(* goes on with the next statement.                                        *)
RaiseSwallowed(type) ==
    /\ raised' = [type |-> type, at |-> pc]
    /\ pc' = CASE pc = "parse_last_alive" -> "parse_ct"
               [] pc = "parse_ct" -> "time"
               [] pc = "time" -> "event"
               [] pc = "event" -> "surv"
               [] pc = "surv" -> "done"

(* An exception ends the cell at the statement that raised it. *)
Raise(type) ==
    /\ raised' = [type |-> type, at |-> pc]
    /\ pc' = "error"

(* clinical_data[col] = vals: item assignment changes the object the name  *)
(* clinical_data refers to, and so every name bound to that object.        *)
AssignColumn(col, vals) ==
    /\ clinical_data' = SetCol(clinical_data, col, vals)
    /\ clinical' = IF clinical_data_is_clinical
                   THEN SetCol(clinical_data, col, vals)
                   ELSE clinical
    /\ UNCHANGED clinical_data_is_clinical

(* clinical_data = clinical.copy() *)
Copy ==
    /\ pc = "copy"
    /\ clinical_data' = copy(clinical).frame
    /\ clinical_data_is_clinical' = copy(clinical).is_self
    /\ pc' = "parse_last_alive"
    /\ UNCHANGED <<clinical, survival_data, raised>>

(* clinical_data[col] = pd.to_datetime(clinical_data[col], format=...) *)
ParseColumn(col, next) ==
    IF col \notin clinical_data.columns
    THEN Raise("KeyError") /\ UNCHANGED <<clinical, clinical_data, clinical_data_is_clinical, survival_data>>
    ELSE IF \E i \in 1..Len(clinical_data.rows) : ParseRaises(clinical_data.rows[i][col])
    THEN Raise("ValueError") /\ UNCHANGED <<clinical, clinical_data, clinical_data_is_clinical, survival_data>>
    ELSE /\ AssignColumn(col,
                      [i \in 1..Len(clinical_data.rows) |->
                          to_datetime(clinical_data.rows[i][col])])
         /\ pc' = next
         /\ UNCHANGED <<survival_data, raised>>

ParseLastAlive == pc = "parse_last_alive" /\ ParseColumn(LastAliveCol, "parse_ct")

ParseCT == pc = "parse_ct" /\ ParseColumn(CTCol, "time")

(* clinical_data["time"] = (last_alive - ct).dt.days - offset *)
ComputeTime ==
    /\ pc = "time"
    /\ IF OffsetCol \notin clinical_data.columns
       THEN Raise("KeyError") /\ UNCHANGED <<clinical, clinical_data, clinical_data_is_clinical, survival_data>>
       ELSE /\ AssignColumn(TimeCol,
                         [i \in 1..Len(clinical_data.rows) |->
                             compute_time(clinical_data.rows[i][LastAliveCol],
                                          clinical_data.rows[i][CTCol],
                                          clinical_data.rows[i][OffsetCol])])
            /\ pc' = "event"
            /\ UNCHANGED <<survival_data, raised>>

(* Variant of ComputeEvent: a missing status column counts as no deaths. *)
ComputeEventLenient ==
    /\ pc = "event"
    /\ AssignColumn(EventCol,
                 [i \in 1..Len(clinical_data.rows) |->
                     IF StatusCol \in clinical_data.columns
                     THEN classify_event(clinical_data.rows[i][StatusCol])
                     ELSE Bool(FALSE)])
    /\ pc' = "surv"
    /\ UNCHANGED <<survival_data, raised>>

(* clinical_data["event"] = clinical_data["Survival Status"].apply(...) *)
ComputeEvent ==
    /\ pc = "event"
    /\ IF StatusCol \notin clinical_data.columns
       THEN Raise("KeyError") /\ UNCHANGED <<clinical, clinical_data, clinical_data_is_clinical, survival_data>>
       ELSE /\ AssignColumn(EventCol,
                         [i \in 1..Len(clinical_data.rows) |->
                             classify_event(clinical_data.rows[i][StatusCol])])
            /\ pc' = "surv"
            /\ UNCHANGED <<survival_data, raised>>

(* survival_data = Surv.from_dataframe("event", "time", clinical_data) *)
ToSurv ==
    /\ pc = "surv"
    /\ \/ /\ SurvMayRaise(clinical_data)
          /\ Raise("ValueError")
          /\ UNCHANGED <<clinical, clinical_data, clinical_data_is_clinical, survival_data>>
       \/ /\ survival_data' = from_dataframe(clinical_data)
          /\ pc' = "done"
          /\ UNCHANGED <<clinical, clinical_data, clinical_data_is_clinical, raised>>

Next == Copy \/ ParseLastAlive \/ ParseCT \/ ComputeTime \/ ComputeEvent \/ ToSurv

Spec == Init /\ [][Next]_vars

------------------------------------------------------------------------------
(* Vocabulary of the properties. *)
Terminated == pc \in {"done", "error"}
NumRows == Len(clinical.rows)
AllColumns == clinical.columns = RequiredCols

HasTime == clinical_data # Undefined /\ TimeCol \in clinical_data.columns
HasEvent == clinical_data # Undefined /\ EventCol \in clinical_data.columns

(* What an input cell says, read off the input table. *)
IsDateString(c) == c.tag = "str" /\ Len(c.s) > 0 /\ MatchesFormat(c.s)
IsMissingDate(c) == c.tag = "nan" \/ (c.tag = "str" /\ Len(c.s) = 0)
IsMalformedDate(c) == c.tag = "str" /\ Len(c.s) > 0 /\ ~MatchesFormat(c.s)

(* Calendar days counted month by month, as a reference for date           *)
(* differences.                                                            *)
DateLE(a, b) ==
    \/ a.y < b.y
    \/ a.y = b.y /\ a.m < b.m
    \/ a.y = b.y /\ a.m = b.m /\ a.d <= b.d

FirstOfNextMonth(a) ==
    IF a.m < 12 THEN Timestamp(a.y, a.m + 1, 1) ELSE Timestamp(a.y + 1, 1, 1)

RECURSIVE DaysUpTo(_, _)
DaysUpTo(a, b) ==
    IF a.y = b.y /\ a.m = b.m THEN b.d - a.d
    ELSE (DaysInMonth(a.y, a.m) - a.d + 1) + DaysUpTo(FirstOfNextMonth(a), b)

(* Whole days from date b to date a, negative when a is before b. *)
WholeDays(a, b) == IF DateLE(b, a) THEN DaysUpTo(b, a) ELSE 0 - DaysUpTo(a, b)

(* A row of the input table whose two dates are date strings and whose     *)
(* offset is an integer, and the duration its fields give.                 *)
WellFormed(r) ==
    /\ AllColumns
    /\ IsDateString(r[LastAliveCol]) /\ IsDateString(r[CTCol])
    /\ r[OffsetCol].tag = "int"

Duration(r) ==
    WholeDays(Strptime(r[LastAliveCol].s), Strptime(r[CTCol].s)) - r[OffsetCol].n

------------------------------------------------------------------------------
C2_EventIffDeath ==
    HasEvent =>
        \A i \in 1..NumRows :
            LET label == clinical.rows[i][StatusCol]
                ev == clinical_data.rows[i][EventCol]
            IN  /\ ev.tag = "bool"
                /\ ev.b = TRUE <=> (label.tag = "str" /\ label.s = "Death")
                /\ label \in {Str("Alive"), Str(""), Str("DECEASED"), Str("death"), NaN}
                      => ev.b = FALSE
                /\ pc = "done" => survival_data[i].event = ev.b

C2_Witness ==
    /\ pc = "done"
    /\ NumRows = 2
    /\ clinical.rows[1][StatusCol] = Str("Death") /\ survival_data[1].event = TRUE
    /\ clinical.rows[2][StatusCol] = Str("DECEASED") /\ survival_data[2].event = FALSE

(* The survival record the fields of one input row give. *)
RowTime(r) ==
    IF IsMissingDate(r[LastAliveCol]) \/ IsMissingDate(r[CTCol])
          \/ r[OffsetCol].tag # "int"
    THEN NaN
    ELSE Float64(Duration(r))

RowSurvival(r) ==
    [event |-> (r[StatusCol].tag = "str" /\ r[StatusCol].s = "Death"),
     time |-> RowTime(r)]

(* C3: a build that returns gives exactly one survival record per input    *)
(* row, in input order: record i is the record of input row i, and the     *)
(* working table keeps the row labels and the input fields of every row.   *)
C3_OneToOne ==
    pc = "done" =>
        /\ Len(survival_data) = NumRows
        /\ Len(clinical_data.rows) = NumRows
        /\ clinical_data.index = clinical.index
        /\ \A i \in 1..NumRows :
              /\ survival_data[i] = RowSurvival(clinical.rows[i])
              /\ clinical_data.rows[i][OffsetCol] = clinical.rows[i][OffsetCol]
              /\ clinical_data.rows[i][StatusCol] = clinical.rows[i][StatusCol]

C3_Witness ==
    /\ pc = "done"
    /\ NumRows = 2
    /\ survival_data[1] # survival_data[2]
    /\ clinical_data.index = <<0, 1>>

(* C4: when exactly one row has a date string that does not match the     *)
(* format and every other row is well formed, the finished build has not   *)
(* aborted: it holds a survival record for every well-formed row and       *)
(* leaves out only the one bad row.                                        *)
OneBadRow(i) ==
    /\ AllColumns
    /\ NumRows >= 2
    /\ IsMalformedDate(clinical.rows[i][LastAliveCol])
          \/ IsMalformedDate(clinical.rows[i][CTCol])
    /\ \A j \in (1..NumRows) \ {i} : WellFormed(clinical.rows[j])

C4_RowIsolation ==
    Terminated =>
        \A i \in 1..NumRows :
            OneBadRow(i) =>
                /\ pc = "done"
                /\ Len(survival_data) = NumRows - 1
                /\ \A j \in (1..NumRows) \ {i} :
                      \E k \in 1..Len(survival_data) :
                          survival_data[k] = RowSurvival(clinical.rows[j])

(* C5: in a build that returns, a row whose duration is negative (the      *)
(* last-known-alive date before the CT date, or an offset larger than the  *)
(* date difference) is in the output with that negative time unchanged.    *)
C5_NegativeRetained ==
    pc = "done" =>
        \A i \in 1..NumRows :
            LET r == clinical.rows[i] IN
            (WellFormed(r) /\ Duration(r) < 0)
            => /\ Len(survival_data) = NumRows
               /\ clinical_data.rows[i][TimeCol] = Int64(Duration(r))
               /\ survival_data[i].time = Float64(Duration(r))

C5_Witness ==
    /\ pc = "done"
    /\ NumRows = 2
    /\ clinical.rows[1][LastAliveCol] = Str(EarlyLastAlive)
    /\ clinical.rows[1][CTCol] = Str(GoodCT)
    /\ survival_data[1].time = Float64(-17)
    /\ clinical.rows[2][LastAliveCol] = Str(GoodLastAlive)
    /\ clinical.rows[2][CTCol] = Str(GoodCT)
    /\ clinical.rows[2][OffsetCol] = Int64(200)
    /\ survival_data[2].time = Float64(-34)

(* C6: every output row has, next to time and event, a validity flag that  *)
(* is false exactly when the time of the row is negative.                  *)
IsNegative(x) == x.tag = "float" /\ x.n < 0

C6_ValidityFlag ==
    pc = "done" =>
        \A i \in 1..Len(survival_data) :
            \E f \in (DOMAIN survival_data[i]) \ {"event", "time"} :
                survival_data[i][f] = ~IsNegative(survival_data[i].time)

(* C7: a row whose last-known-alive date or CT date is empty or missing    *)
(* never appears in the output as a record with an event indicator and a   *)
(* missing time.                                                           *)
C7_NoPartialRecord ==
    pc = "done" =>
        \A i \in 1..NumRows :
            (IsMissingDate(clinical.rows[i][LastAliveCol])
                \/ IsMissingDate(clinical.rows[i][CTCol]))
            => ~(/\ i \in DOMAIN survival_data
                 /\ survival_data[i].event \in BOOLEAN
                 /\ survival_data[i].time = NaN)

(* C8 as stated: no survival record of a build that returns has a negative *)
(* time.                                                                   *)
C8_NonNegativeTime ==
    pc = "done" =>
        \A i \in 1..Len(survival_data) : ~IsNegative(survival_data[i].time)

(* C8 as amended: in a build that returns, the record of a row whose two   *)
(* dates parse and whose offset is an integer has a non-negative time      *)
(* exactly when the offset is at most the whole days from the CT date to   *)
(* the last-known-alive date.                                              *)
C8_NonNegativeWhenOffsetFits ==
    pc = "done" =>
        \A i \in 1..NumRows :
            LET r == clinical.rows[i] IN
            WellFormed(r) =>
                /\ survival_data[i].time.tag = "float"
                /\ survival_data[i].time.n >= 0
                      <=> r[OffsetCol].n <= WholeDays(Strptime(r[LastAliveCol].s),
                                                      Strptime(r[CTCol].s))

C8_Witness ==
    /\ pc = "done"
    /\ \E i, j \in 1..NumRows :
          /\ WellFormed(clinical.rows[i]) /\ survival_data[i].time = Float64(156)
          /\ WellFormed(clinical.rows[j]) /\ IsNegative(survival_data[j].time)

(* C9: with a required column missing, no survival array is ever produced  *)
(* and the cell never gets past the first statement that reads the column: *)
(* it raises there (KeyError) or at an earlier statement.                  *)
StepNo(p) ==
    CASE p = "copy" -> 0
      [] p = "parse_last_alive" -> 1
      [] p = "parse_ct" -> 2
      [] p = "time" -> 3
      [] p = "event" -> 4
      [] p = "surv" -> 5
      [] p = "done" -> 6

FirstUse(c) ==
    CASE c = LastAliveCol -> "parse_last_alive"
      [] c = CTCol -> "parse_ct"
      [] c = OffsetCol -> "time"
      [] c = StatusCol -> "event"

C9_MissingColumnAborts ==
    \A c \in RequiredCols \ clinical.columns :
        /\ survival_data = Undefined
        /\ pc # "error" => StepNo(pc) <= StepNo(FirstUse(c))
        /\ pc = "error" =>
              /\ StepNo(raised.at) <= StepNo(FirstUse(c))
              /\ raised.at = FirstUse(c) => raised.type = "KeyError"

C9_Witness ==
    /\ NumRows = 2
    /\ clinical.columns = RequiredCols \ {OffsetCol}
    /\ pc = "error"
    /\ raised = [type |-> "KeyError", at |-> "time"]
    /\ survival_data = Undefined

(* C10: the survival record of a row depends on that row's fields alone:   *)
(* whatever the other rows hold, the finished build holds, for every       *)
(* well-formed row, the record its own fields give.                        *)
C10_RowIndependent ==
    Terminated =>
        \A i \in 1..NumRows :
            WellFormed(clinical.rows[i]) =>
                /\ pc = "done"
                /\ survival_data[i] = RowSurvival(clinical.rows[i])

(* C11: no step of the build changes the input table: clinical keeps its   *)
(* rows, columns and values whether the build returns or raises part-way;  *)
(* the parsed dates and the time and event columns go to the copy only.    *)
C11_InputUnchanged == [][clinical' = clinical]_vars

C11_Witness ==
    /\ pc = "error"
    /\ raised.at = "parse_ct"
    /\ NumRows = 2
    /\ ~clinical_data_is_clinical
    /\ clinical_data.rows[1][LastAliveCol].tag = "ts"
    /\ clinical.rows[1][LastAliveCol] = Str(GoodLastAlive)

(* The row of the end-to-end example: last_alive 2020-06-15, index         *)
(* 2020-01-01, offset 10, status "Death".                                  *)
IsExampleRow(r) ==
    /\ AllColumns
    /\ r[LastAliveCol] = Str(GoodLastAlive)
    /\ r[CTCol] = Str(GoodCT)
    /\ r[OffsetCol] = Int64(10)
    /\ r[StatusCol] = Str("Death")

AllComputed(df) ==
    /\ {LastAliveCol, CTCol, TimeCol, EventCol} \subseteq df.columns
    /\ \A i \in 1..Len(df.rows) :
          /\ df.rows[i][LastAliveCol].tag \in {"ts", "nat"}
          /\ df.rows[i][CTCol].tag \in {"ts", "nat"}
          /\ df.rows[i][TimeCol].tag \in {"int", "nan"}
          /\ df.rows[i][EventCol].tag = "bool"

C13_FixedOrderAllOrNothing ==
    [][ /\ pc \notin {"done", "error"}
        /\ \/ /\ pc' = "error"
              /\ raised'.at = pc
              /\ clinical_data' = clinical_data
              /\ survival_data' = Undefined
           \/ /\ pc' # "error"
              /\ StepNo(pc') = StepNo(pc) + 1
              /\ raised' = NoError
              /\ pc = "parse_last_alive" =>
                    /\ TimeCol \notin clinical_data'.columns
                    /\ \A i \in 1..Len(clinical_data'.rows) :
                          clinical_data'.rows[i][LastAliveCol].tag \in {"ts", "nat"}
              /\ pc = "parse_ct" =>
                    /\ TimeCol \notin clinical_data'.columns
                    /\ \A i \in 1..Len(clinical_data'.rows) :
                          clinical_data'.rows[i][CTCol].tag \in {"ts", "nat"}
              /\ pc = "time" =>
                    /\ TimeCol \in clinical_data'.columns
                    /\ EventCol \notin clinical_data'.columns
              /\ pc = "event" => EventCol \in clinical_data'.columns
        /\ IF pc' = "done"
           THEN /\ pc = "surv"
                /\ raised' = NoError
                /\ AllComputed(clinical_data')
                /\ Len(survival_data') = Len(clinical_data'.rows)
           ELSE survival_data' = Undefined
      ]_vars

C13_Witness ==
    /\ pc = "error"
    /\ raised = [type |-> "KeyError", at |-> "time"]
    /\ NumRows = 1
    /\ clinical_data.rows[1][LastAliveCol].tag = "ts"
    /\ clinical_data.rows[1][CTCol].tag = "ts"
    /\ TimeCol \notin clinical_data.columns
    /\ EventCol \notin clinical_data.columns
    /\ survival_data = Undefined

====
